---- MODULE Spec2Model ----
(***************************************************************************)
(* Line Allocation Planning System (src/app.py).                           *)
(*                                                                         *)
(* Two specifications share this module.                                   *)
(*   Spec      : the activity repository of one production line and the    *)
(*               request handlers that change it or plan from it.  A       *)
(*               request is submitted, handled by exactly one handler in   *)
(*               one step, and its response delivered.                     *)
(*   SpecAlloc : compute_allocation run step by step (one step per pass of *)
(*               its while loop) on every validated input within bounds.   *)
(*                                                                         *)
(* takt = shift_min * 60 / plan_qty is a Python float.  It is kept here as *)
(* an exact fraction num/den with den > 0, and every comparison of an      *)
(* integer with takt, takt + 2 or 0.6 * takt is cross-multiplied.  For the *)
(* values within the bounds below the float comparisons and the float      *)
(* math.ceil(wc / takt) agree with the exact ones.                         *)
(*                                                                         *)
(* One production line is modelled.  An Activity row is [seq_no, time_sec]; *)
(* the surrogate key id only names the row delete_activity removes and the *)
(* text column is carried by no computation.                               *)
(***************************************************************************)
EXTENDS Integers, Sequences, FiniteSets, TLC

\* ---- bounds ----
MaxActs ==
  3
MaxDur ==
  5
MaxQty ==
  24
MaxShift ==
  1
MaxSeq ==
  3
MaxTime ==
  1
MaxBatch ==
  2

\* ---- program constants ----
SecondsPerMinute ==
  60
UpperTolerance ==
  2
UnderNum ==
  6
UnderDen ==
  10

VARIABLES db, request, response,
          activities, plan_qty, shift_min, pc, manpower, buckets, times,
          passes, operators

vars ==
  <<db, request, response, activities, plan_qty, shift_min, pc, manpower,
    buckets, times, passes, operators>>

repoVars ==
  <<db, request, response>>

engineVars ==
  <<activities, plan_qty, shift_min, pc, manpower, buckets, times, passes,
    operators>>

\* ------------------------------------------------------------------------
\* Arithmetic helpers
\* ------------------------------------------------------------------------

\* math.ceil(a / b) for b > 0
CeilDiv(a, b) ==
  -((-a) \div b)

RECURSIVE SumTime(_)
\* sum(a.time_sec for a in acts)
SumTime(acts) ==
  IF acts = <<>> THEN 0 ELSE Head(acts).time_sec + SumTime(Tail(acts))

\* max(times), times non-empty
MaxOf(ts) ==
  CHOOSE x \in {ts[k] : k \in DOMAIN ts} : \A k \in DOMAIN ts : x >= ts[k]

\* takt = shift_sec / plan_qty, plan_qty # 0, as a fraction with den > 0
Takt(qty, shift) ==
  IF qty > 0
    THEN [num |-> shift * SecondsPerMinute, den |-> qty]
    ELSE [num |-> -(shift * SecondsPerMinute), den |-> -qty]

ExceedsUpperInclusive(t, takt) ==
  t * takt.den >= takt.num + UpperTolerance * takt.den

\* t > UPPER_BOUND, UPPER_BOUND = takt + 2
ExceedsUpper(t, takt) ==
  t * takt.den > takt.num + UpperTolerance * takt.den

\* manpower = min(math.ceil(wc / takt), len(activities)), takt # 0
InitialManpower(acts, takt) ==
  LET wc == SumTime(acts)
      c == IF takt.num > 0
             THEN CeilDiv(wc * takt.den, takt.num)
             ELSE CeilDiv(-(wc * takt.den), -takt.num)
  IN IF c <= Len(acts) THEN c ELSE Len(acts)

\* ------------------------------------------------------------------------
\* compute_allocation: the bin-fill pass, the acceptance test, the report
\* ------------------------------------------------------------------------

\* Buckets are numbered 1..manpower here (0..manpower-1 in the code), so
\* "op < manpower - 1" reads "op < manpower".
AdvanceOp(t, d, op, m, takt) ==
  ExceedsUpper(t + d, takt) /\ op < m

RECURSIVE FillFrom(_, _, _, _, _, _)
\* the for loop over activities, from the i-th activity on
FillFrom(acts, i, op, bs, ts, takt) ==
  IF i > Len(acts) THEN [buckets |-> bs, times |-> ts]
  ELSE LET act == acts[i]
           nop == IF AdvanceOp(ts[op], act.time_sec, op, Len(bs), takt)
                    THEN op + 1 ELSE op
       IN FillFrom(acts, i + 1, nop,
                   [bs EXCEPT ![nop] = Append(@, act)],
                   [ts EXCEPT ![nop] = @ + act.time_sec], takt)

\* one iteration of the while loop up to its test: fresh buckets, one fill
FillPass(acts, m, takt) ==
  FillFrom(acts, 1, 1, [k \in 1..m |-> <<>>], [k \in 1..m |-> 0], takt)

AcceptedOffByOne(ts, m, n, takt) ==
  ~ExceedsUpper(MaxOf(ts), takt) \/ m + 1 >= n

AcceptedUncapped(ts, m, n, takt) ==
  ~ExceedsUpper(MaxOf(ts), takt)

\* max(times) <= UPPER_BOUND or manpower >= len(activities)
Accepted(ts, m, n, takt) ==
  ~ExceedsUpper(MaxOf(ts), takt) \/ m >= n

StatusUnderInclusive(t, takt) ==
  IF t * takt.den > takt.num THEN "over"
  ELSE IF UnderDen * t * takt.den <= UnderNum * takt.num THEN "under"
  ELSE "ok"

\* "over" if t > takt, else "under" if t < 0.6 * takt, else "ok"
Status(t, takt) ==
  IF t * takt.den > takt.num THEN "over"
  ELSE IF UnderDen * t * takt.den < UnderNum * takt.num THEN "under"
  ELSE "ok"

ReportedOffByOne(t) ==
  t > 1

ReportedAlways(t) ==
  t >= 0

\* if t > 0: operators.append(...)
Reported(t) ==
  t > 0

RECURSIVE ReportFrom(_, _, _)
\* the enumerate(buckets) loop; name is the k of "OPk"
ReportFrom(bs, i, takt) ==
  IF i > Len(bs) THEN <<>>
  ELSE LET t == SumTime(bs[i])
           rest == ReportFrom(bs, i + 1, takt)
       IN IF Reported(t)
            THEN <<[name |-> i, acts |-> bs[i], time |-> t,
                    status |-> Status(t, takt)]>> \o rest
            ELSE rest

RECURSIVE Search(_, _, _)
\* the while True loop, run to its break; the buckets it leaves
Search(acts, m, takt) ==
  LET p == FillPass(acts, m, takt)
  IN IF Accepted(p.times, m, Len(acts), takt) THEN p.buckets
     ELSE Search(acts, m + 1, takt)

\* compute_allocation as a function of the ordered activities and the two
\* parameters.  status is "ok", "no_activities" (the error result), or the
\* exception that escapes: float division by zero when plan_qty = 0 or
\* takt = 0, list index out of range when manpower <= 0 leaves no bucket.
compute_allocation(acts, qty, shift) ==
  IF acts = <<>>
    THEN [status |-> "no_activities", manpower_used |-> 0, operators |-> <<>>]
  ELSE IF qty = 0 \/ shift = 0
    THEN [status |-> "ZeroDivisionError", manpower_used |-> 0,
          operators |-> <<>>]
  ELSE IF InitialManpower(acts, Takt(qty, shift)) <= 0
    THEN [status |-> "IndexError", manpower_used |-> 0, operators |-> <<>>]
  ELSE LET takt == Takt(qty, shift)
           ops == ReportFrom(Search(acts, InitialManpower(acts, takt), takt),
                             1, takt)
       IN [status |-> "ok", manpower_used |-> Len(ops), operators |-> ops]

\* ------------------------------------------------------------------------
\* SpecAlloc: compute_allocation step by step on validated input
\* ------------------------------------------------------------------------

DurVals ==
  1..MaxDur

\* the ordered rows of a line: n activities numbered 1..n
ActivityLists ==
  UNION {{[i \in 1..n |-> [seq_no |-> i, time_sec |-> d[i]]] :
            d \in [1..n -> DurVals]} : n \in 1..MaxActs}

NoRequest ==
  [handler |-> "none"]

NoResponse ==
  [handler |-> "none", status |-> "none"]

\* every call with a non-empty line, positive durations and validated
\* parameters, within the bounds
InitAlloc ==
  /\ db = {}
  /\ request = NoRequest
  /\ response = NoResponse
  /\ activities \in ActivityLists
  /\ plan_qty \in 1..MaxQty
  /\ shift_min \in 1..MaxShift
  /\ pc = "start"
  /\ manpower = 0
  /\ buckets = <<>>
  /\ times = <<>>
  /\ passes = 0
  /\ operators = <<>>

\* wc, takt and the seed of manpower (lines 396-404)
SeedManpower ==
  /\ pc = "start"
  /\ manpower' = InitialManpower(activities, Takt(plan_qty, shift_min))
  /\ pc' = "loop"
  /\ UNCHANGED <<repoVars, activities, plan_qty, shift_min, buckets, times,
                 passes, operators>>

\* one pass of the while loop that ends in break
PassAccept ==
  /\ pc = "loop"
  /\ LET takt == Takt(plan_qty, shift_min)
         p == FillPass(activities, manpower, takt)
     IN /\ Accepted(p.times, manpower, Len(activities), takt)
        /\ buckets' = p.buckets
        /\ times' = p.times
  /\ passes' = passes + 1
  /\ pc' = "report"
  /\ UNCHANGED <<repoVars, activities, plan_qty, shift_min, manpower,
                 operators>>

\* one pass of the while loop that ends in manpower += 1
PassRetry ==
  /\ pc = "loop"
  /\ LET takt == Takt(plan_qty, shift_min)
         p == FillPass(activities, manpower, takt)
     IN /\ ~Accepted(p.times, manpower, Len(activities), takt)
        /\ buckets' = p.buckets
        /\ times' = p.times
  /\ passes' = passes + 1
  /\ manpower' = manpower + 1
  /\ UNCHANGED <<repoVars, activities, plan_qty, shift_min, pc, operators>>

\* classification and result assembly (lines 423-448)
Report ==
  /\ pc = "report"
  /\ operators' = ReportFrom(buckets, 1, Takt(plan_qty, shift_min))
  /\ pc' = "done"
  /\ UNCHANGED <<repoVars, activities, plan_qty, shift_min, manpower, buckets,
                 times, passes>>

NextAlloc ==
  \/ SeedManpower
  \/ PassAccept
  \/ PassRetry
  \/ Report

SpecAlloc ==
  InitAlloc /\ [][NextAlloc]_vars

\* ------------------------------------------------------------------------
\* Spec: the Activity table of one line and the request handlers
\* ------------------------------------------------------------------------

SeqVals ==
  1..MaxSeq

\* time_sec values a form can post; 0 is rejected
FormTimes ==
  0..MaxTime

\* time_sec cells of an uploaded sheet, counted in halves: 0, 0.5 and 1.0
SheetTimes ==
  {0, 1, 2}

\* plan_qty and shift values a planning form can post
PlanQtys ==
  -1..MaxQty

PlanShifts ==
  -1..MaxShift

\* class Activity, for one line_id: seq_no and time_sec
ActivityRows ==
  [seq_no : SeqVals, time_sec : FormTimes]

SheetRows ==
  [seq_no : SeqVals, time2 : SheetTimes]

\* an uploaded sheet: whether its columns are exactly the three required ones
\* in order, whether no cell is missing, and its rows
Sheets ==
  [columns_ok : BOOLEAN, complete : BOOLEAN,
   rows : UNION {[1..n -> SheetRows] : n \in 0..MaxBatch}]

PlanHandlers ==
  {"daily_plan", "export_daily_plan", "print_daily_plan"}

Requests ==
  [handler : {"line_activities"}, seq : SeqVals, time_sec : FormTimes]
    \cup [handler : {"delete_activity"}, row : ActivityRows]
    \cup [handler : {"import_line_activities"}, file : Sheets]
    \cup [handler : PlanHandlers, plan_qty : PlanQtys, shift : PlanShifts]

\* db.UniqueConstraint('line_id', 'seq_no'): would inserting seq conflict
SeqTaken(table, seq) ==
  \E a \in table : a.seq_no = seq

RECURSIVE OrderBySeq(_)
\* Activity.query.filter_by(line_id=...).order_by(Activity.seq_no).all()
OrderBySeq(table) ==
  IF table = {} THEN <<>>
  ELSE LET first == CHOOSE a \in table : \A b \in table : a.seq_no <= b.seq_no
       IN <<first>> \o OrderBySeq(table \ {first})

\* seq != list(range(min(seq), min(seq) + len(seq))), seq non-empty
NotRange(rows) ==
  LET lo == CHOOSE x \in {rows[i].seq_no : i \in 1..Len(rows)} :
              \A i \in 1..Len(rows) : x <= rows[i].seq_no
  IN \E i \in 1..Len(rows) : rows[i].seq_no # lo + i - 1

\* the rows the import adds to the session: int(row["time_sec"]) truncates
ImportedRows(rows) ==
  {[seq_no |-> rows[i].seq_no, time_sec |-> rows[i].time2 \div 2] :
     i \in 1..Len(rows)}

\* the commit of the import: the unique constraint over the added rows
CommitImport(table, rows) ==
  IF \E i, j \in 1..Len(rows) : i # j /\ rows[i].seq_no = rows[j].seq_no
    THEN [db |-> table, status |-> "duplicate_sequence"]
    ELSE [db |-> ImportedRows(rows), status |-> "imported"]

ImportOutcomeNoSequenceCheck(table, file) ==
  IF ~file.columns_ok THEN [db |-> table, status |-> "format_mismatch"]
  ELSE IF ~file.complete THEN [db |-> table, status |-> "missing_values"]
  ELSE IF \E i \in 1..Len(file.rows) : file.rows[i].time2 <= 0
    THEN [db |-> table, status |-> "time_not_positive"]
  ELSE IF file.rows = <<>> THEN [db |-> table, status |-> "ValueError"]
  ELSE CommitImport(table, file.rows)

\* import_line_activities after the file was read: the table it leaves and
\* the message it flashes ("ValueError": min() of an empty list escapes)
ImportOutcome(table, file) ==
  IF ~file.columns_ok THEN [db |-> table, status |-> "format_mismatch"]
  ELSE IF ~file.complete THEN [db |-> table, status |-> "missing_values"]
  ELSE IF \E i \in 1..Len(file.rows) : file.rows[i].time2 <= 0
    THEN [db |-> table, status |-> "time_not_positive"]
  ELSE IF file.rows = <<>> THEN [db |-> table, status |-> "ValueError"]
  ELSE IF NotRange(file.rows)
    THEN [db |-> table, status |-> "sequence_not_continuous"]
  ELSE CommitImport(table, file.rows)

\* the response of a planning handler that called compute_allocation
Planned(handler, qty, shift) ==
  LET r == compute_allocation(OrderBySeq(db), qty, shift)
  IN [handler |-> handler, status |-> r.status, plan_qty |-> qty,
      shift_min |-> shift, computed |-> TRUE,
      manpower_used |-> r.manpower_used]

Init ==
  /\ db = {}
  /\ request = NoRequest
  /\ response = NoResponse
  /\ activities = <<>>
  /\ plan_qty = 0
  /\ shift_min = 0
  /\ pc = "idle"
  /\ manpower = 0
  /\ buckets = <<>>
  /\ times = <<>>
  /\ passes = 0
  /\ operators = <<>>

\* a client posts a request
Submit ==
  /\ request = NoRequest
  /\ response = NoResponse
  /\ request' \in Requests
  /\ UNCHANGED <<db, response, engineVars>>

\* the response reaches the client
Deliver ==
  /\ response # NoResponse
  /\ response' = NoResponse
  /\ UNCHANGED <<db, request, engineVars>>

\* POST /line/<id>/activities
line_activities ==
  /\ request.handler = "line_activities"
  /\ IF request.time_sec <= 0
       THEN /\ db' = db
            /\ response' = [handler |-> "line_activities",
                            status |-> "time_not_positive"]
     ELSE IF SeqTaken(db, request.seq)
       THEN /\ db' = db
            /\ response' = [handler |-> "line_activities",
                            status |-> "duplicate_sequence"]
     ELSE /\ db' = db \cup {[seq_no |-> request.seq,
                             time_sec |-> request.time_sec]}
          /\ response' = [handler |-> "line_activities", status |-> "added"]
  /\ request' = NoRequest
  /\ UNCHANGED engineVars

\* POST /activity/<id>/delete
delete_activity ==
  /\ request.handler = "delete_activity"
  /\ IF request.row \in db
       THEN /\ db' = db \ {request.row}
            /\ response' = [handler |-> "delete_activity",
                            status |-> "deleted"]
       ELSE /\ db' = db
            /\ response' = [handler |-> "delete_activity",
                            status |-> "not_found"]
  /\ request' = NoRequest
  /\ UNCHANGED engineVars

\* POST /line/<id>/import
import_line_activities ==
  /\ request.handler = "import_line_activities"
  /\ LET out == ImportOutcome(db, request.file)
     IN /\ db' = out.db
        /\ response' = [handler |-> "import_line_activities",
                        status |-> out.status]
  /\ request' = NoRequest
  /\ UNCHANGED engineVars

\* POST /daily-plan
daily_plan ==
  /\ request.handler = "daily_plan"
  /\ IF request.shift <= 0 \/ request.plan_qty <= 0
       THEN response' = [handler |-> "daily_plan", status |-> "invalid_input",
                         plan_qty |-> request.plan_qty,
                         shift_min |-> request.shift, computed |-> FALSE,
                         manpower_used |-> 0]
       ELSE response' = Planned("daily_plan", request.plan_qty, request.shift)
  /\ request' = NoRequest
  /\ UNCHANGED <<db, engineVars>>

\* POST /export/daily-plan
export_daily_plan ==
  /\ request.handler = "export_daily_plan"
  /\ response' = Planned("export_daily_plan", request.plan_qty, request.shift)
  /\ request' = NoRequest
  /\ UNCHANGED <<db, engineVars>>

\* POST /print/daily-plan
print_daily_plan ==
  /\ request.handler = "print_daily_plan"
  /\ response' = Planned("print_daily_plan", request.plan_qty, request.shift)
  /\ request' = NoRequest
  /\ UNCHANGED <<db, engineVars>>

Next ==
  \/ Submit
  \/ line_activities
  \/ delete_activity
  \/ import_line_activities
  \/ daily_plan
  \/ export_daily_plan
  \/ print_daily_plan
  \/ Deliver

Spec ==
  Init /\ [][Next]_vars

\* ------------------------------------------------------------------------
\* Properties of compute_allocation (checked under SpecAlloc)
\* ------------------------------------------------------------------------

RECURSIVE ConcatActs(_)
ConcatActs(ops) ==
  IF ops = <<>> THEN <<>> ELSE Head(ops).acts \o ConcatActs(Tail(ops))

\* t <= takt + 2 for the takt of the current run, stated on the inputs
WithinUpper(t) ==
  t * plan_qty <= shift_min * 60 + 2 * plan_qty

AllActivitiesFit ==
  \A i \in 1..Len(activities) : WithinUpper(activities[i].time_sec)

RECURSIVE RunTime(_, _)
\* total duration of activities lo..hi
RunTime(lo, hi) ==
  IF lo > hi THEN 0 ELSE activities[lo].time_sec + RunTime(lo + 1, hi)

\* cuts is a set of positions k (a run ends after activity k); every run of
\* the partition it describes has total <= takt + 2
PartitionFits(cuts) ==
  \A lo \in 1..Len(activities) : \A hi \in lo..Len(activities) :
    ( /\ (lo = 1 \/ (lo - 1) \in cuts)
      /\ (hi = Len(activities) \/ hi \in cuts)
      /\ \A k \in lo..(hi - 1) : k \notin cuts )
    => WithinUpper(RunTime(lo, hi))

\* C1: the activity lists of the reported operators, concatenated in operator
\* order, are exactly the input activity sequence: nothing dropped, nothing
\* duplicated, order kept, each operator a contiguous run.
C1_CoverageOrder ==
  pc = "done" => ConcatActs(operators) = activities

C1_Witness ==
  /\ pc = "done"
  /\ Len(activities) = 3
  /\ Len(operators) = 2
  /\ Len(operators[1].acts) = 2

\* C2: no partition of the ordered activities into contiguous runs, each of
\* total <= takt + 2, has fewer runs than the reported manpower_used.
C2_MinimalOperators ==
  pc = "done" =>
    \A cuts \in SUBSET (1..(Len(activities) - 1)) :
      PartitionFits(cuts) => Cardinality(cuts) + 1 >= Len(operators)

C2_Witness ==
  /\ pc = "done"
  /\ AllActivitiesFit
  /\ passes >= 2
  /\ Len(operators) = 3

\* C3: for every smaller planned quantity q1 < plan_qty the takt of plan_qty
\* is strictly smaller and the reported operator count is at least the count
\* reported for q1.
C3_TaktMonotone ==
  pc = "done" =>
    \A q1 \in 1..(plan_qty - 1) :
      /\ shift_min * 60 * q1 < shift_min * 60 * plan_qty
      /\ compute_allocation(activities, q1, shift_min).manpower_used
           <= Len(operators)

\* C4: the search loop makes at most len(activities) - initialManpower + 1
\* passes, manpower never exceeds len(activities), and no more than
\* len(activities) operators are reported.
C4_TerminationBound ==
  LET n == Len(activities)
      init == InitialManpower(activities, Takt(plan_qty, shift_min))
  IN /\ manpower <= n
     /\ passes <= n - init + 1
     /\ (pc = "loop" => passes <= n - init)
     /\ Len(operators) <= n

C4_Witness ==
  /\ pc = "done"
  /\ passes = 2
  /\ passes = Len(activities)
               - InitialManpower(activities, Takt(plan_qty, shift_min)) + 1
  /\ manpower = Len(activities)

\* C8: a reported operator with total t is OVER iff t > takt, UNDER iff
\* t < 0.6 * takt, OK otherwise; t = takt is OK and t = 0.6 * takt is OK.
C8_StatusClassification ==
  pc = "done" =>
    \A i \in 1..Len(operators) :
      LET t == operators[i].time
          over == t * plan_qty > shift_min * 60
          under == 5 * t * plan_qty < 3 * shift_min * 60
      IN /\ operators[i].status \in {"over", "under", "ok"}
         /\ operators[i].status = "over" <=> over
         /\ operators[i].status = "under" <=> under
         /\ operators[i].status = "ok" <=> (~over /\ ~under)

C8_Witness ==
  /\ pc = "done"
  /\ \E i \in 1..Len(operators) :
       /\ operators[i].time * plan_qty = shift_min * 60
       /\ operators[i].status = "ok"
  /\ \E i \in 1..Len(operators) :
       /\ 5 * operators[i].time * plan_qty = 3 * shift_min * 60
       /\ operators[i].status = "ok"

PassEnded ==
  pc \in {"report", "done"}

\* C9 as stated: after a pass run with manpower = len(activities) every
\* bucket holds at least one activity, and the reported operators are
\* OP1..OPn with none omitted.
C9_NoEmptyBucket ==
  (PassEnded /\ manpower = Len(activities)) =>
    /\ \A i \in 1..manpower : buckets[i] # <<>>
    /\ pc = "done" =>
         {operators[i].name : i \in 1..Len(operators)} = 1..manpower

\* C9 amended: after a pass run with manpower = len(activities) a bucket may
\* be empty, namely the first bucket when the first activity alone exceeds
\* takt + 2, and every bucket after the last one the fill reached; exactly
\* the empty buckets are omitted, so every reported operator holds at least
\* one activity.
C9_EmptyBucketsOmitted ==
  (PassEnded /\ manpower = Len(activities)) =>
    /\ \A i \in 1..manpower :
         buckets[i] = <<>> =>
           \/ /\ i = 1
              /\ manpower > 1
              /\ ~WithinUpper(activities[1].time_sec)
           \/ \A j \in i..manpower : buckets[j] = <<>>
    /\ pc = "done" =>
         /\ \A i \in 1..Len(operators) : operators[i].acts # <<>>
         /\ {operators[i].name : i \in 1..Len(operators)}
              = {i \in 1..manpower : buckets[i] # <<>>}

C9_Witness ==
  /\ pc = "done"
  /\ manpower = Len(activities)
  /\ AllActivitiesFit
  /\ buckets[manpower] = <<>>
  /\ Len(operators) < manpower

\* C10: if every single activity is <= takt + 2 then every reported operator
\* has total <= takt + 2.
C10_NoOverloadWhenFeasible ==
  (pc = "done" /\ AllActivitiesFit) =>
    \A i \in 1..Len(operators) : WithinUpper(operators[i].time)

C10_Witness ==
  /\ pc = "done"
  /\ AllActivitiesFit
  /\ manpower = Len(activities)
  /\ passes >= 2
  /\ Len(operators) = manpower

\* ------------------------------------------------------------------------
\* Properties of the handlers (checked under Spec)
\* ------------------------------------------------------------------------

\* C5: on daily_plan, export_daily_plan and print_daily_plan a request with
\* plan_qty <= 0 or shift <= 0 is rejected before compute_allocation is
\* reached, and no request ends in a division by zero or an index error.
C5_ParametersRejected ==
  response.handler \in PlanHandlers =>
    /\ (response.plan_qty <= 0 \/ response.shift_min <= 0)
         => (~response.computed /\ response.status = "invalid_input")
    /\ response.status \notin {"ZeroDivisionError", "IndexError"}

\* the import rules, stated on the uploaded sheet
ContiguousIncreasing(rows) ==
  \A i \in 1..(Len(rows) - 1) : rows[i + 1].seq_no = rows[i].seq_no + 1

SharesSequence(rows) ==
  \E i \in 1..Len(rows) : \E j \in (i + 1)..Len(rows) :
    rows[i].seq_no = rows[j].seq_no

ViolatesImportRule(file) ==
  \/ ~file.columns_ok
  \/ ~file.complete
  \/ \E i \in 1..Len(file.rows) : file.rows[i].time2 <= 0
  \/ ~ContiguousIncreasing(file.rows)
  \/ SharesSequence(file.rows)

C7_WellFormedActivities ==
  LET acts == OrderBySeq(db)
  IN /\ \A a, b \in db : a.seq_no = b.seq_no => a = b
     /\ \A i \in 1..(Len(acts) - 1) : acts[i + 1].seq_no = acts[i].seq_no + 1
     /\ \A a \in db : a.time_sec > 0

====
